---- MODULE Spec2Model ----
(***************************************************************************)
(* wordule (src/src/main.rs): a Wordle helper.  The model covers the       *)
(* letter containers (LetterSet, LetterCount), the Scoring type, and the   *)
(* guess loop of main: rank, pick, response parsing, candidate filtering.  *)
(*                                                                         *)
(* Representation.  A char is a one-character string, except the two-byte  *)
(* char U+00E9 which is written "U+00E9".  A string (&str / String) is a   *)
(* tuple of chars.  A LetterSet (u32 bitmap) is the set of its set bit     *)
(* indexes 0..25.  An f32 is an exact rational [k |-> "fin", n, d] or one  *)
(* of the IEEE specials NaN, -inf, +inf; rounding of finite values is not  *)
(* modelled.                                                               *)
(***************************************************************************)
EXTENDS Integers, Sequences, FiniteSets, TLC

VARIABLES
    pc,                   \* position of main: "start", "rank", "pick", "response", "parse", "exit"
    args,                 \* Args (length, dict, guesses, score_word)
    all_words,            \* Vec<&str>: the loaded dictionary, resorted every round
    words,                \* Vec<&str>: the current candidates
    fixed_letters,        \* Vec<Option<char>>
    fixed_anywhere,       \* LetterSet
    forbidden_position,   \* Vec<LetterSet>
    forbidden_everywhere, \* LetterSet
    present_everywhere,   \* LetterSet
    score,                \* the Scoring built at the top of the round
    early_guesses,        \* Vec<&str>
    late_guesses,         \* Vec<&str>
    display,              \* the lines printed under "guesses (early, late):"
    picked,               \* the accepted pick of the round
    res,                  \* the accepted response line of the round
    pos,                  \* index of the next (res, pick) pair of the parse loop
    rounds,               \* completed iterations of the guess loop
    diag,                 \* what the last step wrote to stderr / stdout ("" if nothing)
    exit_code,            \* -1 while running, else the process exit code
    probe                 \* ScoreSpec only: the last Scoring call and its result

vars == <<pc, args, all_words, words, fixed_letters, fixed_anywhere,
          forbidden_position, forbidden_everywhere, present_everywhere,
          score, early_guesses, late_guesses, display, picked, res, pos,
          rounds, diag, exit_code, probe>>

----------------------------------------------------------------------------
(* Bounds of the model *)

\* guess-loop iterations explored in a session
MaxRounds == 2

\* longest candidate list handed to Scoring::new in ScoreSpec
MaxWords == 3

----------------------------------------------------------------------------
(* chars and strings *)

None == "None"

Alphabet ==
    << "a", "b", "c", "d", "e", "f", "g", "h", "i", "j", "k", "l", "m",
       "n", "o", "p", "q", "r", "s", "t", "u", "v", "w", "x", "y", "z" >>

\* char::is_ascii_lowercase
is_ascii_lowercase(ch) == \E k \in 1..Len(Alphabet) : Alphabet[k] = ch

\* UTF-8 width of a char
ByteLen(ch) == IF ch = "U+00E9" THEN 2 ELSE 1

RECURSIVE StrLen(_)
\* str::len: the length in bytes
StrLen(s) == IF s = <<>> THEN 0 ELSE ByteLen(Head(s)) + StrLen(Tail(s))

Min(a, b) == IF a < b THEN a ELSE b

Abs(x) == IF x < 0 THEN -x ELSE x

\* the chars of a string, as a set
Chars(s) == {s[k] : k \in 1..Len(s)}

\* Option<u8> as a set: {} is None, {index} is Some(index)
to_letter_index(letter) ==
    IF is_ascii_lowercase(letter)
    THEN {(CHOOSE k \in 1..Len(Alphabet) : Alphabet[k] = letter) - 1}
    ELSE {}

letters == Alphabet

----------------------------------------------------------------------------
(* LetterSet *)

LetterSet_default == {}

LetterSet_insert(set, letter) ==
    LET index == to_letter_index(letter)
    IN  IF index # {} THEN set \cup index ELSE set

LetterSet_contains(set, letter) ==
    LET index == to_letter_index(letter)
    IN  IF index # {} THEN (set \cap index) # {} ELSE FALSE

RECURSIVE LetterSet_from_word_loop(_, _)
LetterSet_from_word_loop(set, word) ==
    IF word = <<>> THEN set
    ELSE LetterSet_from_word_loop(LetterSet_insert(set, Head(word)), Tail(word))

LetterSet_from_word(word) == LetterSet_from_word_loop(LetterSet_default, word)

----------------------------------------------------------------------------
(* LetterCount *)

LetterCount_default == [k \in 0..25 |-> 0]

LetterCount_increment(map, letter) ==
    LET index == to_letter_index(letter)
    IN  IF index # {} THEN [k \in DOMAIN map |-> IF k \in index THEN map[k] + 1 ELSE map[k]]
        ELSE map

LetterCount_get(map, letter) ==
    LET index == to_letter_index(letter)
    IN  IF index # {} THEN map[CHOOSE k \in index : TRUE] ELSE 0

----------------------------------------------------------------------------
(* f32 *)

Fin(n, d) == [k |-> "fin", n |-> n, d |-> d]
NaN == [k |-> "nan"]
NegInf == [k |-> "ninf"]
PosInf == [k |-> "pinf"]
FZero == Fin(0, 1)

\* (a as f32) / (h as f32)
FDiv(a, h) ==
    IF h # 0 THEN Fin(a, h)
    ELSE IF a = 0 THEN NaN
    ELSE IF a < 0 THEN NegInf ELSE PosInf

FAdd(x, y) ==
    IF x.k = "nan" \/ y.k = "nan" THEN NaN
    ELSE IF x.k = "fin" /\ y.k = "fin"
         THEN IF x.d = y.d THEN Fin(x.n + y.n, x.d)
              ELSE IF x.n = 0 THEN y
              ELSE IF y.n = 0 THEN x
              ELSE Fin(x.n * y.d + y.n * x.d, x.d * y.d)
    ELSE IF x.k = "fin" THEN y
    ELSE IF y.k = "fin" THEN x
    ELSE IF x.k = y.k THEN x ELSE NaN

\* x * 2.0
FMul2(x) == IF x.k = "fin" THEN Fin(2 * x.n, x.d) ELSE x

\* f32::partial_cmp: "Less", "Equal", "Greater", or None when either is NaN
partial_cmp(x, y) ==
    IF x.k = "nan" \/ y.k = "nan" THEN None
    ELSE IF x.k = "fin" /\ y.k = "fin"
         THEN IF x.n * y.d < y.n * x.d THEN "Less"
              ELSE IF x.n * y.d > y.n * x.d THEN "Greater" ELSE "Equal"
    ELSE IF x.k = y.k THEN "Equal"
    ELSE IF x.k = "ninf" \/ y.k = "pinf" THEN "Less" ELSE "Greater"

----------------------------------------------------------------------------
(* Scoring *)

\* the inner loop of Scoring::new over letters(): the bucket of every letter of
\* the word's set goes up by one
Scoring_new_letters(count, word_set) ==
    [k \in DOMAIN count |->
        IF LetterSet_contains(word_set, letters[k + 1])
        THEN LetterCount_get(LetterCount_increment(count, letters[k + 1]), letters[k + 1])
        ELSE count[k]]

RECURSIVE Scoring_count_word_mutant(_, _)
\* mutant: one increment per occurrence of a letter in the word
Scoring_count_word_mutant(count, word) ==
    IF word = <<>> THEN count
    ELSE Scoring_count_word_mutant(LetterCount_increment(count, Head(word)), Tail(word))

\* the body of the loop of Scoring::new over the words

Scoring_count_word(count, word) ==
    Scoring_new_letters(count, LetterSet_from_word(word))

RECURSIVE Scoring_new_words(_, _)
Scoring_new_words(count, ws) ==
    IF ws = <<>> THEN count
    ELSE Scoring_new_words(Scoring_count_word(count, Head(ws)), Tail(ws))

Scoring_new(ws) ==
    [half |-> Len(ws) \div 2,
     count |-> Scoring_new_words(LetterCount_default, ws)]

max_score(self) == self.half

\* mutant: the peak one past half
abs_score_mutant(self, letter) ==
    self.half - Abs(LetterCount_get(self.count, letter) - (self.half + 1))

\* the numerator of letter_score
abs_score(self, letter) ==
    self.half - Abs(LetterCount_get(self.count, letter) - self.half)

letter_score(self, letter) == FDiv(abs_score(self, letter), self.half)

\* the match on (early, present_letters.contains(ch)) of word_score
adjust(sc, early, present) ==
    IF early
    THEN IF present THEN FZero ELSE sc
    ELSE IF present THEN FMul2(sc) ELSE sc

RECURSIVE word_score_loop(_, _, _, _, _)
\* the loop of word_score over letters(): the letters of the set, in alphabet
\* order (rest holds the indexes not yet visited)
word_score_loop(self, rest, present_letters, early, total) ==
    IF rest = {} THEN total
    ELSE LET index == CHOOSE k \in rest : \A m \in rest : k <= m
             ch == letters[index + 1]
         IN  word_score_loop(self, rest \ {index}, present_letters, early,
                 FAdd(total,
                      adjust(letter_score(self, ch), early,
                             LetterSet_contains(present_letters, ch))))

word_score(self, word, present_letters, early) ==
    word_score_loop(self, LetterSet_from_word(word), present_letters, early, FZero)

----------------------------------------------------------------------------
(* The inputs explored: dictionary files, command lines, prompt lines *)

crane == << "c", "r", "a", "n", "e" >>
crate == << "c", "r", "a", "t", "e" >>
slate == << "s", "l", "a", "t", "e" >>
plate == << "p", "l", "a", "t", "e" >>
stair == << "s", "t", "a", "i", "r" >>
atone == << "a", "t", "o", "n", "e" >>
sassy == << "s", "a", "s", "s", "y" >>
sissy == << "s", "i", "s", "s", "y" >>

\* the six-word dictionary of the scenarios
Dict6 == << crane, crate, slate, plate, stair, atone >>

\* the lines of each dictionary file; a path that is not here cannot be opened
Files ==
    [six |-> Dict6 \o << << "c", "r", "a", "n", "e", "s" >>,
                         << "C", "r", "a", "n", "e" >>,
                         << "c", "a", "f", "U+00E9" >> >>,
     ss  |-> << sassy, sissy >>,
     two |-> << << "a", "b" >>, << "b", "a" >>, << "a", "a" >>,
                << "b", "c" >>, << "c", "b" >>, << "a", "b", "c" >>,
                << "A", "b" >> >>]

Readable == {"six", "ss", "two"}

MkArgs(length, dict, guesses, score_word) ==
    [length |-> length, dict |-> dict, guesses |-> guesses, score_word |-> score_word]

\* the command lines explored
ArgsSet ==
    { MkArgs(5, "six", 3, None),
      MkArgs(5, "ss", 10, None),
      MkArgs(2, "two", 2, None),
      MkArgs(0, "two", 10, None),
      MkArgs(5, "missing", 10, None),
      MkArgs(5, "six", 10, slate) }

\* the lines the user may type at "picked> "
PickInputs ==
    { crane, sassy, slate,
      << "o", "x", "o", "x", "o" >>,
      << "C", "r", "a", "n", "e" >>,
      << "a", "b" >>, << "b", "a" >>, << "a", "a" >>, << "b", "c" >>,
      << "o", "x" >>, << "a", "4" >> }

\* the lines the user may type at "response> ": every x/?/o string of length 2,
\* some strings of length 5, a line with another byte, a five-byte line of
\* four chars
ResponseInputs ==
    { << a, b >> : a \in {"x", "?", "o"}, b \in {"x", "?", "o"} }
    \cup { << "o", "q" >>,
           << "o", "o", "x", "x", "x" >>,
           << "o", "x", "x", "o", "x" >>,
           << "x", "x", "o", "o", "o" >>,
           << "x", "?", "x", "?", "o" >>,
           << "?", "x", "q", "x", "x" >>,
           << "U+00E9", "o", "x", "?" >> }

----------------------------------------------------------------------------
(* slice::sort_by on a slice of at most 20 elements: an insertion sort.     *)
(* insertion_sort_shift_left inserts v[i] into the sorted v[..i], the older *)
(* merge_sort inserts v[i] into the sorted v[i+1..]; both are stable and    *)
(* agree when the comparison is a total preorder.                           *)

\* the closure given to sort_by: partial_cmp(..).unwrap_or(Equal).reverse()
compare_desc(ls, rs) ==
    LET c == partial_cmp(ls, rs)
    IN  IF c = "Less" THEN "Greater"
        ELSE IF c = "Greater" THEN "Less" ELSE "Equal"

is_less(key, l, r) == compare_desc(key[l], key[r]) = "Less"

RECURSIVE insert_tail(_, _, _, _)
\* x goes after position j of sorted, moving left past every element it is less than
insert_tail(key, sorted, x, j) ==
    IF j >= 1 /\ is_less(key, x, sorted[j])
    THEN insert_tail(key, sorted, x, j - 1)
    ELSE SubSeq(sorted, 1, j) \o << x >> \o SubSeq(sorted, j + 1, Len(sorted))

RECURSIVE insertion_sort_shift_left(_, _, _)
insertion_sort_shift_left(key, v, i) ==
    IF i > Len(v) THEN v
    ELSE insertion_sort_shift_left(key,
             insert_tail(key, SubSeq(v, 1, i - 1), v[i], i - 1)
                 \o SubSeq(v, i + 1, Len(v)),
             i + 1)

RECURSIVE insert_head(_, _, _, _)
\* x goes before position j of sorted, moving right past every element less than it
insert_head(key, x, sorted, j) ==
    IF j <= Len(sorted) /\ is_less(key, sorted[j], x)
    THEN insert_head(key, x, sorted, j + 1)
    ELSE SubSeq(sorted, 1, j - 1) \o << x >> \o SubSeq(sorted, j, Len(sorted))

RECURSIVE merge_sort_short(_, _, _)
merge_sort_short(key, v, i) ==
    IF i < 1 THEN v
    ELSE merge_sort_short(key,
             SubSeq(v, 1, i - 1)
                 \o insert_head(key, v[i], SubSeq(v, i + 1, Len(v)), 1),
             i - 1)

\* what v.sort_by(..) may leave in v, the words compared by key
sort_by(v, key) ==
    { insertion_sort_shift_left(key, v, 2), merge_sort_short(key, v, Len(v) - 1) }

\* &v[..k] when v.len() >= k, else &v[..]
first_k(v, k) == IF Len(v) < k THEN v ELSE SubSeq(v, 1, k)

----------------------------------------------------------------------------
(* main: the hints and the guess loop *)

\* the hints as one value
Hints ==
    [fixed_letters        |-> fixed_letters,
     fixed_anywhere       |-> fixed_anywhere,
     forbidden_position   |-> forbidden_position,
     forbidden_everywhere |-> forbidden_everywhere,
     present_everywhere   |-> present_everywhere]

\* the hints before the first round
hints_new(length) ==
    [fixed_letters        |-> [k \in 1..length |-> None],
     fixed_anywhere       |-> LetterSet_default,
     forbidden_position   |-> [k \in 1..length |-> LetterSet_default],
     forbidden_everywhere |-> LetterSet_default,
     present_everywhere   |-> LetterSet_default]

\* mutant: the lines of the right byte length, whatever their chars
load_words_mutant(lines, length) ==
    SelectSeq(lines, LAMBDA line : StrLen(line) = length)

\* the dictionary load: the lines of the right byte length, all ascii lowercase
load_words(lines, length) ==
    SelectSeq(lines, LAMBDA line :
        StrLen(line) = length /\ \A k \in 1..Len(line) : is_ascii_lowercase(line[k]))

\* mutant: the letter is forbidden at every fixed position, its own included
grey_fixed_mutant(h, pick) ==
    [h EXCEPT !.forbidden_position =
        [j \in DOMAIN h.forbidden_position |->
            IF h.fixed_letters[j] # None
            THEN LetterSet_insert(h.forbidden_position[j], pick)
            ELSE h.forbidden_position[j]]]

\* the 'x' arm when the letter was used as a fix: the loop over 0..length
grey_fixed(h, pick) ==
    [h EXCEPT !.forbidden_position =
        [j \in DOMAIN h.forbidden_position |->
            IF h.fixed_letters[j] # None /\ h.fixed_letters[j] # pick
            THEN LetterSet_insert(h.forbidden_position[j], pick)
            ELSE h.forbidden_position[j]]]

\* mutant: a grey letter is forbidden everywhere, used as a fix or not
parse_grey_mutant(h, pick) ==
    [h EXCEPT !.forbidden_everywhere = LetterSet_insert(@, pick)]

\* mutant: the 'x' arm asks whether any letter is a fix, not whether this one is
parse_grey_any_fixed(h, pick) ==
    IF h.fixed_anywhere # LetterSet_default
    THEN grey_fixed(h, pick)
    ELSE [h EXCEPT !.forbidden_everywhere = LetterSet_insert(@, pick)]

\* the 'x' arm
parse_grey(h, pick) ==
    IF LetterSet_contains(h.fixed_anywhere, pick)
    THEN grey_fixed(h, pick)
    ELSE [h EXCEPT !.forbidden_everywhere = LetterSet_insert(@, pick)]

\* the '?' arm; i counts from 1
parse_orange(h, i, pick) ==
    [h EXCEPT !.forbidden_position[i] = LetterSet_insert(@, pick),
              !.present_everywhere = LetterSet_insert(@, pick)]

\* the 'o' arm; i counts from 1
parse_green(h, i, pick) ==
    [h EXCEPT !.fixed_letters[i] = pick,
              !.fixed_anywhere = LetterSet_insert(@, pick),
              !.present_everywhere = LetterSet_insert(@, pick)]

\* mutant: a char that is none of x, ? and o is taken for a grey
parse_position_mutant(h, i, r, pick) ==
    IF r = "?" THEN parse_orange(h, i, pick)
    ELSE IF r = "o" THEN parse_green(h, i, pick)
    ELSE parse_grey(h, pick)

\* the body of the loop over res.chars().zip(picked.chars()).enumerate()
parse_position(h, i, r, pick) ==
    IF r = "x" THEN parse_grey(h, pick)
    ELSE IF r = "?" THEN parse_orange(h, i, pick)
    ELSE IF r = "o" THEN parse_green(h, i, pick)
    ELSE h

RECURSIVE filter_word_no_position(_, _, _)
\* mutant: forbidden_position is not consulted
filter_word_no_position(h, word, i) ==
    IF i > Len(word) THEN TRUE
    ELSE IF LetterSet_contains(h.forbidden_everywhere, word[i]) THEN FALSE
    ELSE IF h.fixed_letters[i] # None /\ h.fixed_letters[i] # word[i] THEN FALSE
    ELSE filter_word_no_position(h, word, i + 1)

RECURSIVE filter_word_no_forbidden(_, _, _)
\* mutant: forbidden_everywhere is not consulted
filter_word_no_forbidden(h, word, i) ==
    IF i > Len(word) THEN TRUE
    ELSE IF h.fixed_letters[i] # None /\ h.fixed_letters[i] # word[i] THEN FALSE
    ELSE IF LetterSet_contains(h.forbidden_position[i], word[i]) THEN FALSE
    ELSE filter_word_no_forbidden(h, word, i + 1)

RECURSIVE filter_word(_, _, _)
\* the closure of the candidate filter, from char i (counted from 1) on
filter_word(h, word, i) ==
    IF i > Len(word) THEN TRUE
    ELSE IF LetterSet_contains(h.forbidden_everywhere, word[i]) THEN FALSE
    ELSE IF h.fixed_letters[i] # None /\ h.fixed_letters[i] # word[i] THEN FALSE
    ELSE IF LetterSet_contains(h.forbidden_position[i], word[i]) THEN FALSE
    ELSE filter_word(h, word, i + 1)

\* mutant: the filter runs over the whole dictionary, not over the candidates
filter_words_from_all(ws, h) ==
    SelectSeq(all_words, LAMBDA word : filter_word(h, word, 1))

\* mutant: the first word is skipped before the filter
filter_words_mutant(ws, h) ==
    IF ws = <<>> THEN ws
    ELSE SelectSeq(Tail(ws), LAMBDA word : filter_word(h, word, 1))

\* mem::take(&mut words).into_iter().filter(..).collect()
filter_words(ws, h) == SelectSeq(ws, LAMBDA word : filter_word(h, word, 1))

\* the sort key of the two sort_by calls
sort_key(sc, present) ==
    [w \in Chars(all_words) |-> word_score(sc, w, present, TRUE)]

\* the lines printed under "guesses (early, late):"
display_lines(sc, early, late, present) ==
    [k \in 1..Min(Len(early), Len(late)) |->
        [early |-> early[k], es |-> word_score(sc, early[k], present, TRUE),
         late  |-> late[k],  ls |-> word_score(sc, late[k], present, FALSE)]]

NoScoring == [half |-> 0, count |-> LetterCount_default]

Init ==
    /\ pc = "start"
    /\ args \in ArgsSet
    /\ all_words = <<>>
    /\ words = <<>>
    /\ fixed_letters = <<>>
    /\ fixed_anywhere = LetterSet_default
    /\ forbidden_position = <<>>
    /\ forbidden_everywhere = LetterSet_default
    /\ present_everywhere = LetterSet_default
    /\ score = NoScoring
    /\ early_guesses = <<>>
    /\ late_guesses = <<>>
    /\ display = <<>>
    /\ picked = <<>>
    /\ res = <<>>
    /\ pos = 0
    /\ rounds = 0
    /\ diag = ""
    /\ exit_code = -1
    /\ probe = None

hint_vars == <<fixed_letters, fixed_anywhere, forbidden_position,
               forbidden_everywhere, present_everywhere>>

rank_vars == <<score, early_guesses, late_guesses, display>>

\* main returns Err: the dictionary cannot be opened, or length is 0
StartFail ==
    /\ pc = "start"
    /\ \/ args.dict \notin Readable /\ diag' = "opening words file"
       \/ args.dict \in Readable /\ args.length = 0
          /\ diag' = "word length must be positive"
    /\ pc' = "exit"
    /\ exit_code' = 1
    /\ UNCHANGED <<args, all_words, words, hint_vars, rank_vars, picked, res,
                   pos, rounds, probe>>

\* --score-word: print the word's score over the dictionary and return Ok
StartScoreWord ==
    /\ pc = "start"
    /\ args.dict \in Readable
    /\ args.length > 0
    /\ args.score_word # None
    /\ all_words' = load_words(Files[args.dict], args.length)
    /\ score' = Scoring_new(all_words')
    /\ probe' = word_score(score', args.score_word, LetterSet_default, TRUE)
    /\ diag' = "score"
    /\ pc' = "exit"
    /\ exit_code' = 0
    /\ UNCHANGED <<args, words, hint_vars, early_guesses, late_guesses, display,
                   picked, res, pos, rounds>>

\* load the dictionary, clone it into words, clear the hints
StartSession ==
    /\ pc = "start"
    /\ args.dict \in Readable
    /\ args.length > 0
    /\ args.score_word = None
    /\ all_words' = load_words(Files[args.dict], args.length)
    /\ words' = all_words'
    /\ fixed_letters' = hints_new(args.length).fixed_letters
    /\ fixed_anywhere' = hints_new(args.length).fixed_anywhere
    /\ forbidden_position' = hints_new(args.length).forbidden_position
    /\ forbidden_everywhere' = hints_new(args.length).forbidden_everywhere
    /\ present_everywhere' = hints_new(args.length).present_everywhere
    /\ diag' = "wordule: wordle solving thingy"
    /\ pc' = "rank"
    /\ UNCHANGED <<args, rank_vars, picked, res, pos, rounds, exit_code, probe>>

\* the top of the guess loop: score, sort both lists, print the guesses
Rank ==
    /\ pc = "rank"
    /\ score' = Scoring_new(words)
    /\ all_words' \in sort_by(all_words, sort_key(score', present_everywhere))
    /\ early_guesses' = first_k(all_words', args.guesses)
    /\ words' \in sort_by(words, sort_key(score', present_everywhere))
    /\ late_guesses' = first_k(words', args.guesses)
    /\ display' = display_lines(score', early_guesses', late_guesses', present_everywhere)
    /\ diag' = "guesses (early, late):"
    /\ pc' = "pick"
    /\ UNCHANGED <<args, hint_vars, picked, res, pos, rounds, exit_code, probe>>

\* rl.readline("picked> ") fails: main returns Err
PickEof ==
    /\ pc = "pick"
    /\ diag' = "readline"
    /\ pc' = "exit"
    /\ exit_code' = 1
    /\ UNCHANGED <<args, all_words, words, hint_vars, rank_vars, picked, res,
                   pos, rounds, probe>>

\* the three checks of the pick loop, in the code's order
pick_error(word, length) ==
    IF StrLen(word) # length THEN "length doesn't match"
    ELSE IF \E k \in 1..Len(word) : ~is_ascii_lowercase(word[k])
         THEN "contains invalid chars"
    ELSE IF \A k \in 1..Len(word) : word[k] \in {"o", "x"}
         THEN "only contains o and x, we want picked guess not pattern"
    ELSE ""

PickReject ==
    /\ pc = "pick"
    /\ \E word \in PickInputs :
          /\ pick_error(word, args.length) # ""
          /\ diag' = pick_error(word, args.length)
    /\ UNCHANGED <<pc, args, all_words, words, hint_vars, rank_vars, picked, res,
                   pos, rounds, exit_code, probe>>

PickAccept ==
    /\ pc = "pick"
    /\ rounds < MaxRounds
    /\ \E word \in PickInputs :
          /\ pick_error(word, args.length) = ""
          /\ picked' = word
    /\ diag' = ""
    /\ pc' = "response"
    /\ UNCHANGED <<args, all_words, words, hint_vars, rank_vars, res, pos,
                   rounds, exit_code, probe>>

\* rl.readline("response> ") fails: main returns Err
ResponseEof ==
    /\ pc = "response"
    /\ diag' = "readline"
    /\ pc' = "exit"
    /\ exit_code' = 1
    /\ UNCHANGED <<args, all_words, words, hint_vars, rank_vars, picked, res,
                   pos, rounds, probe>>

ResponseReject ==
    /\ pc = "response"
    /\ \E r \in ResponseInputs : StrLen(r) # args.length
    /\ diag' = "response length doesn't match"
    /\ UNCHANGED <<pc, args, all_words, words, hint_vars, rank_vars, picked, res,
                   pos, rounds, exit_code, probe>>

ResponseAccept ==
    /\ pc = "response"
    /\ \E r \in ResponseInputs :
          /\ StrLen(r) = args.length
          /\ res' = r
    /\ pos' = 0
    /\ diag' = ""
    /\ pc' = "parse"
    /\ UNCHANGED <<args, all_words, words, hint_vars, rank_vars, picked, rounds,
                   exit_code, probe>>

\* one iteration of the loop over the zipped chars of res and picked
ParseStep ==
    /\ pc = "parse"
    /\ pos < Min(Len(res), Len(picked))
    /\ LET h == parse_position(Hints, pos + 1, res[pos + 1], picked[pos + 1])
       IN  /\ fixed_letters' = h.fixed_letters
           /\ fixed_anywhere' = h.fixed_anywhere
           /\ forbidden_position' = h.forbidden_position
           /\ forbidden_everywhere' = h.forbidden_everywhere
           /\ present_everywhere' = h.present_everywhere
    /\ diag' = IF res[pos + 1] \in {"x", "?", "o"} THEN ""
               ELSE "invalid response syntax"
    /\ pos' = pos + 1
    /\ UNCHANGED <<pc, args, all_words, words, rank_vars, picked, res, rounds,
                   exit_code, probe>>

\* the zip is exhausted: filter out impossible guesses and loop
Filter ==
    /\ pc = "parse"
    /\ pos = Min(Len(res), Len(picked))
    /\ words' = filter_words(words, Hints)
    /\ rounds' = rounds + 1
    /\ diag' = ""
    /\ pc' = "rank"
    /\ UNCHANGED <<args, all_words, hint_vars, rank_vars, picked, res, pos,
                   exit_code, probe>>

Next ==
    \/ StartFail
    \/ StartScoreWord
    \/ StartSession
    \/ Rank
    \/ PickEof
    \/ PickReject
    \/ PickAccept
    \/ ResponseEof
    \/ ResponseReject
    \/ ResponseAccept
    \/ ParseStep
    \/ Filter

Spec == Init /\ [][Next]_vars

----------------------------------------------------------------------------
(* Scoring on its own: Scoring::new over a bounded candidate list, then     *)
(* calls of max_score, letter_score and word_score                          *)

\* three-letter words over a, b, c; aab and abb have the same letters
ScorePool ==
    { << "a", "a", "b" >>, << "a", "b", "b" >>, << "a", "b", "c" >>,
      << "b", "c", "c" >> }

RECURSIVE ListsUpTo(_)
\* the lists of at most n words of ScorePool
ListsUpTo(n) ==
    IF n = 0 THEN { <<>> }
    ELSE ListsUpTo(n - 1)
         \cup { Append(l, w) : l \in { x \in ListsUpTo(n - 1) : Len(x) = n - 1 },
                               w \in ScorePool }

\* the candidate lists scored: the short lists, and the six-word dictionary
ScoreLists == ListsUpTo(MaxWords) \cup { Dict6 }

ProbeLetters == { "a", "b", "c", "r", "z", "A" }

ProbeWords == ScorePool \cup { slate, << "b", "a", "b", "a" >>, << "A", "b", "4" >> }

ProbePresent == { LetterSet_default, LetterSet_from_word(<< "a" >>),
                  LetterSet_from_word(<< "a", "b" >>) }

ScoreInit ==
    /\ pc = "scoring"
    /\ words \in ScoreLists
    /\ args = MkArgs(IF words = <<>> THEN 3 ELSE Len(words[1]), "", 0, None)
    /\ all_words = words
    /\ fixed_letters = <<>>
    /\ fixed_anywhere = LetterSet_default
    /\ forbidden_position = <<>>
    /\ forbidden_everywhere = LetterSet_default
    /\ present_everywhere = LetterSet_default
    /\ score = NoScoring
    /\ early_guesses = <<>>
    /\ late_guesses = <<>>
    /\ display = <<>>
    /\ picked = <<>>
    /\ res = <<>>
    /\ pos = 0
    /\ rounds = 0
    /\ diag = ""
    /\ exit_code = -1
    /\ probe = None

score_frame == <<args, all_words, words, hint_vars, early_guesses, late_guesses,
                 display, picked, res, pos, rounds, diag, exit_code>>

ScoreNew ==
    /\ pc = "scoring"
    /\ score' = Scoring_new(words)
    /\ pc' = "scored"
    /\ UNCHANGED <<score_frame, probe>>

ProbeMaxScore ==
    /\ pc = "scored"
    /\ probe' = [op |-> "max_score", result |-> max_score(score)]
    /\ pc' = "probed"
    /\ UNCHANGED <<score_frame, score>>

ProbeLetterScore ==
    /\ pc = "scored"
    /\ \E ch \in ProbeLetters :
          probe' = [op |-> "letter_score", letter |-> ch,
                    result |-> letter_score(score, ch)]
    /\ pc' = "probed"
    /\ UNCHANGED <<score_frame, score>>

ProbeWordScore ==
    /\ pc = "scored"
    /\ \E w \in ProbeWords, present \in ProbePresent, early \in BOOLEAN :
          probe' = [op |-> "word_score", word |-> w, present |-> present,
                    early |-> early,
                    result |-> word_score(score, w, present, early)]
    /\ pc' = "probed"
    /\ UNCHANGED <<score_frame, score>>

ScoreNext ==
    \/ ScoreNew
    \/ ProbeMaxScore
    \/ ProbeLetterScore
    \/ ProbeWordScore

ScoreSpec == ScoreInit /\ [][ScoreNext]_vars

----------------------------------------------------------------------------
(* Vocabulary of the properties, written without the operators above *)

\* the bit index of a letter, as a set (empty for a char that is no letter)
Ix(l) == { k \in 0..25 : Alphabet[k + 1] = l }

\* letter l is in the LetterSet
InSet(l, set) == Ix(l) # {} /\ Ix(l) \subseteq set

HasLetter(w, l) == \E k \in 1..Len(w) : w[k] = l

\* the number of current candidates holding letter l at least once
CountOf(l) == Cardinality({ k \in 1..Len(words) : HasLetter(words[k], l) })

\* the distinct letters a..z of a word
DistinctLetters(w) == { l \in Chars(w) : Ix(l) # {} }

\* the three conditions of the filter on one word
Survives(w, fe, fl, fp) ==
    \A i \in 1..Len(w) :
        /\ ~InSet(w[i], fe)
        /\ fl[i] # None => w[i] = fl[i]
        /\ ~InSet(w[i], fp[i])

\* two f32 values are the same number (or the same special)
FSame(x, y) ==
    IF x.k = "fin" /\ y.k = "fin" THEN x.n * y.d = y.n * x.d ELSE x.k = y.k

RECURSIVE FSum(_)
\* the sum of the values of a function, in any order
FSum(f) ==
    IF DOMAIN f = {} THEN FZero
    ELSE LET l == CHOOSE m \in DOMAIN f : TRUE
         IN  FAdd(f[l], FSum([m \in DOMAIN f \ {l} |-> f[m]]))

\* a step of the parse loop, and the step that filters the candidates
IsParseStep == pc = "parse" /\ pos' = pos + 1
IsFilterStep == pc = "parse" /\ pc' = "rank"

AfterUpdate == pc = "rank" /\ rounds >= 1

----------------------------------------------------------------------------
(* C1 *)

\* C1: the filter step keeps exactly the candidates whose every char is not
\* in forbidden_everywhere, equals the fixed letter of its position if one is
\* set, and is not in forbidden_position of its position, in their order;
\* present_everywhere is not consulted.
C1_FilterKeeps ==
    [][IsFilterStep =>
         words' = SelectSeq(words, LAMBDA w :
                      Survives(w, forbidden_everywhere, fixed_letters,
                               forbidden_position))]_vars

\* the filter has dropped a word and kept two, one of them without a letter
\* known to be present
C1_Witness ==
    /\ AfterUpdate
    /\ Len(words) >= 2
    /\ Len(words) < Len(all_words)
    /\ \E k \in 1..Len(words) : \E l \in Chars(picked) :
          InSet(l, present_everywhere) /\ ~HasLetter(words[k], l)

----------------------------------------------------------------------------
(* C2 *)

----------------------------------------------------------------------------
(* C3 *)

\* C3: at the top of every round after an update, every candidate has length
\* L, holds only letters a..z, and passes the three filter conditions against
\* the current hints.
C3_CandidatesConsistent ==
    AfterUpdate =>
        \A k \in 1..Len(words) :
            /\ Len(words[k]) = args.length
            /\ \A i \in 1..Len(words[k]) : Ix(words[k][i]) # {}
            /\ Survives(words[k], forbidden_everywhere, fixed_letters,
                        forbidden_position)

\* two rounds done, candidates left, and hints of all three kinds in force
C3_Witness ==
    /\ AfterUpdate
    /\ rounds = 2
    /\ words # <<>>
    /\ Len(words) < Len(all_words)
    /\ forbidden_everywhere # {}
    /\ \E j \in 1..args.length : fixed_letters[j] # None
    /\ \E j \in 1..args.length : forbidden_position[j] # {}

----------------------------------------------------------------------------
(* C4 *)

OOXXX == << "o", "o", "x", "x", "x" >>

\* the first round of the scenario is over: crane picked, ooxxx answered
C4_Scenario ==
    /\ AfterUpdate
    /\ rounds = 1
    /\ args.length = 5
    /\ Chars(all_words) = Chars(Dict6)
    /\ picked = crane
    /\ res = OOXXX

\* C4 as stated: the filter leaves exactly {crate}.
C4_Original == C4_Scenario => Chars(words) = { crate }

\* C4, amended: after crane / ooxxx on the six-word dictionary the hints are
\* fixed = [c, r, _, _, _], fixed_anywhere = {c, r}, forbidden_everywhere =
\* {a, n, e}, the rest empty, and the filter leaves no candidate (crate holds
\* the forbidden a and e).
C4_ScenarioLeavesNothing ==
    C4_Scenario =>
        /\ fixed_letters = << "c", "r", None, None, None >>
        /\ fixed_anywhere = Ix("c") \cup Ix("r")
        /\ forbidden_everywhere = Ix("a") \cup Ix("n") \cup Ix("e")
        /\ present_everywhere = Ix("c") \cup Ix("r")
        /\ \A j \in 1..5 : forbidden_position[j] = {}
        /\ words = <<>>

C4_Witness == C4_Scenario /\ words = <<>>

----------------------------------------------------------------------------
(* C5 *)

\* letter_score has been called on a list of at least two words
C5_Case == pc = "probed" /\ probe.op = "letter_score" /\ Len(words) >= 2

\* C5 as stated: the score is in [0, 1], is 1 exactly when count = half, and
\* is 0 when the letter is in all candidates or in none.
C5_Original ==
    C5_Case =>
        /\ probe.result.k = "fin"
        /\ probe.result.d = Len(words) \div 2
        /\ 0 <= probe.result.n /\ probe.result.n <= probe.result.d
        /\ probe.result.n = probe.result.d <=> CountOf(probe.letter) = Len(words) \div 2
        /\ CountOf(probe.letter) \in {0, Len(words)} => probe.result.n = 0

\* C5, amended: for n >= 2 the score is (half - |count - half|) / half with
\* half = n div 2, which lies in [-1/half, 1]; it is 1 exactly when count =
\* half, 0 when the letter is in no candidate or in all of an even number of
\* candidates, and -1/half when it is in all of an odd number of candidates.
C5_LetterScoreRange ==
    C5_Case =>
        /\ probe.result.k = "fin"
        /\ probe.result.d = Len(words) \div 2
        /\ -1 <= probe.result.n /\ probe.result.n <= probe.result.d
        /\ probe.result.n = probe.result.d <=> CountOf(probe.letter) = Len(words) \div 2
        /\ CountOf(probe.letter) = 0 => probe.result.n = 0
        /\ CountOf(probe.letter) = Len(words) =>
              probe.result.n = (IF Len(words) % 2 = 0 THEN 0 ELSE -1)
        /\ probe.result.n < 0 => CountOf(probe.letter) = Len(words)

\* a letter of all three candidates has scored -1
C5_Witness ==
    /\ C5_Case
    /\ Len(words) = 3
    /\ CountOf(probe.letter) = 3
    /\ probe.result = Fin(-1, 1)

----------------------------------------------------------------------------
(* C6 *)

C6_Case == pc = "probed" /\ probe.op = "letter_score" /\ words = Dict6

\* C6 as stated: over the six words letter_score('a') = 1 and letter_score('z') = 0.
C6_Original ==
    C6_Case =>
        /\ probe.letter = "a" => FSame(probe.result, Fin(1, 1))
        /\ probe.letter = "z" => FSame(probe.result, Fin(0, 1))

\* C6, amended: over the six words the letter a is counted in all 6 words, so
\* letter_score('a') = 0, and letter_score('z') = 0; the letter counted in
\* exactly 3 = n/2 words is r, and letter_score('r') = 1.
C6_Dict6LetterScores ==
    C6_Case =>
        /\ probe.letter = "a" =>
              /\ CountOf("a") = 6
              /\ LetterCount_get(score.count, "a") = 6
              /\ FSame(probe.result, Fin(0, 1))
        /\ probe.letter = "z" => FSame(probe.result, Fin(0, 1))
        /\ probe.letter = "r" =>
              /\ LetterCount_get(score.count, "r") = 3
              /\ FSame(probe.result, Fin(1, 1))

C6_Witness ==
    /\ C6_Case
    /\ probe.letter = "a"
    /\ score.half = 3
    /\ FSame(probe.result, Fin(0, 1))

----------------------------------------------------------------------------
(* C7 *)

C7_Case == pc = "probed" /\ probe.op = "word_score"

\* what one letter adds to word_score
C7_Contribution(l, present, early) ==
    IF InSet(l, present)
    THEN IF early THEN FZero ELSE FMul2(letter_score(score, l))
    ELSE letter_score(score, l)

\* C7: word_score is the sum over the distinct letters of the word of 0
\* (early, present), 2 * letter_score (late, present) or letter_score; words
\* with the same distinct letters score the same; count[l] is the number of
\* candidates holding l, each counted once.
C7_WordScoreSum ==
    C7_Case =>
        /\ FSame(probe.result,
                 FSum([l \in DistinctLetters(probe.word) |->
                          C7_Contribution(l, probe.present, probe.early)]))
        /\ \A w \in ProbeWords :
              DistinctLetters(w) = DistinctLetters(probe.word) =>
                  FSame(word_score(score, w, probe.present, probe.early),
                        probe.result)
        /\ \A k \in 1..Len(Alphabet) :
              /\ LetterCount_get(score.count, Alphabet[k]) = CountOf(Alphabet[k])
              /\ LetterCount_get(score.count, Alphabet[k]) <= Len(words)

\* a late-mode score of aab, a known present, over candidates that repeat letters
C7_Witness ==
    /\ C7_Case
    /\ probe.word = << "a", "a", "b" >>
    /\ ~probe.early
    /\ InSet("a", probe.present)
    /\ Len(words) = 3
    /\ \E k \in 1..Len(words) : words[k] = << "a", "b", "b" >>
    /\ probe.result.k = "fin" /\ probe.result.n > 0

----------------------------------------------------------------------------
(* C8 *)

\* C8: forbidden_everywhere and present_everywhere share no letter.
C8_ForbiddenPresentDisjoint == forbidden_everywhere \cap present_everywhere = {}

----------------------------------------------------------------------------
(* C9 *)

OXXOX == << "o", "x", "x", "o", "x" >>

\* C9: no step adds to forbidden_everywhere a letter that is in fixed_anywhere
\* when the step is taken; with sassy / oxxox as the first response, the last
\* step adds y and s stays out of forbidden_everywhere.
C9_NoFixedLetterForbidden ==
    [][/\ \A k \in forbidden_everywhere' \ forbidden_everywhere :
             k \notin fixed_anywhere
       /\ (IsParseStep /\ rounds = 0 /\ picked = sassy /\ res = OXXOX /\ pos = 4) =>
             /\ InSet("y", forbidden_everywhere')
             /\ ~InSet("s", forbidden_everywhere')
             /\ InSet("s", fixed_anywhere')
      ]_vars

\* sassy / oxxox has been parsed: s is a fix and not forbidden, y is forbidden
C9_Witness ==
    /\ pc = "parse"
    /\ rounds = 0
    /\ picked = sassy
    /\ res = OXXOX
    /\ pos = 5
    /\ InSet("s", fixed_anywhere)
    /\ ~InSet("s", forbidden_everywhere)
    /\ InSet("y", forbidden_everywhere)

----------------------------------------------------------------------------
(* C10 *)

\* C10: filtering the list the filter has just left, with the same hints,
\* gives the same list.
C10_FilterIdempotent ==
    AfterUpdate => filter_words(words, Hints) = words

\* the filter has dropped some words and kept others
C10_Witness ==
    /\ AfterUpdate
    /\ words # <<>>
    /\ Len(words) < Len(all_words)
    /\ Len(filter_words(all_words, Hints)) < Len(all_words)

----------------------------------------------------------------------------
(* C11 *)

\* the orders in which n positions can be visited
Perms(n) == { f \in [1..n -> 1..n] : \A a, b \in 1..n : f[a] = f[b] => a = b }

RECURSIVE ParseInOrder(_, _, _)
\* the hints after the loop body has run on positions order[k], order[k+1], ...
ParseInOrder(h, order, k) ==
    IF k > Len(order) THEN h
    ELSE ParseInOrder(parse_position(h, order[k], res[order[k]], picked[order[k]]),
                      order, k + 1)

\* a response of greens and greys has been accepted and no grey letter is a fix
\* already or is made green by this response
C11_Case ==
    /\ pc = "parse"
    /\ pos = 0
    /\ Len(res) = Len(picked)
    /\ \A i \in 1..Len(res) : res[i] \in {"o", "x"}
    /\ \A i \in 1..Len(res) :
          res[i] = "x" =>
              /\ ~InSet(picked[i], fixed_anywhere)
              /\ ~\E j \in 1..Len(res) : res[j] = "o" /\ picked[j] = picked[i]

\* C11: for such a response, visiting the positions in any order leaves the
\* hints the left-to-right pass leaves.
C11_OrderInsensitive ==
    C11_Case =>
        \A order \in Perms(Len(res)) :
            ParseInOrder(Hints, order, 1)
                = ParseInOrder(Hints, [k \in 1..Len(res) |-> k], 1)

\* a five-letter response with greens and greys, met with fixes already made
C11_Witness ==
    /\ C11_Case
    /\ rounds >= 1
    /\ Len(res) = 5
    /\ fixed_anywhere # {}
    /\ \E i, j \in 1..Len(res) : res[i] = "o" /\ res[j] = "x"

----------------------------------------------------------------------------
(* C12 *)

\* what the prompts are documented to accept; lengths are counts of characters
ValidPick(word, length) ==
    /\ Len(word) = length
    /\ \A k \in 1..Len(word) : Ix(word[k]) # {}
    /\ \E k \in 1..Len(word) : word[k] \notin {"o", "x"}

ValidResponse(r, length) == Len(r) = length

\* a line was read at a prompt and the prompt is shown again
IsReprompt == pc \in {"pick", "response"} /\ pc' = pc /\ diag' # diag

\* C12: a pick is accepted exactly when it has L characters, all of them a..z
\* and not all of them o or x; a response is accepted exactly when it has L
\* characters; a rejected line changes neither the hints nor the candidates and
\* leaves the program at the same prompt.
C12_InputValidation ==
    [][ /\ pc = "pick" =>
              \A word \in PickInputs :
                  (pick_error(word, args.length) = "") <=> ValidPick(word, args.length)
        /\ (pc = "pick" /\ pc' = "response") => ValidPick(picked', args.length)
        /\ (pc = "response" /\ pc' = "parse") => ValidResponse(res', args.length)
        /\ (pc = "response" /\ pc' = "response" /\ diag' # "") =>
              \E r \in ResponseInputs : ~ValidResponse(r, args.length)
        /\ IsReprompt =>
              UNCHANGED <<Hints, words, all_words, picked, res, rounds, exit_code>>
      ]_vars

----------------------------------------------------------------------------
(* C13 *)

ResponseAlphabet == {"x", "?", "o"}

\* what a step over a position with x, ? or o writes for the letter there
NormalTransition(i, r, p) ==
    IF r = "o" THEN /\ fixed_letters'[i] = p
                    /\ InSet(p, fixed_anywhere')
                    /\ InSet(p, present_everywhere')
    ELSE IF r = "?" THEN /\ InSet(p, forbidden_position'[i])
                         /\ InSet(p, present_everywhere')
    ELSE IF InSet(p, fixed_anywhere)
         THEN \A j \in 1..Len(forbidden_position) :
                 InSet(p, forbidden_position'[j]) <=>
                     \/ InSet(p, forbidden_position[j])
                     \/ fixed_letters[j] \notin {None, p}
         ELSE InSet(p, forbidden_everywhere')

----------------------------------------------------------------------------
(* C14 *)

\* the session loop was entered and the program has ended
SessionEnded == pc = "exit" /\ all_words # <<>> /\ args.score_word = None

\* C14: once the session loop has started the program ends only by the end of
\* input at one of the two prompts, and it then ends with exit code 0.
C14_EofExitsCleanly ==
    /\ SessionEnded => exit_code = 0
    /\ SessionEnded => diag = "readline"

----------------------------------------------------------------------------
(* C15 *)

\* a probe of a Scoring built from fewer than two words
C15_Case == pc = "probed" /\ Len(words) < 2

\* C15: over fewer than two candidates half is 0, max_score is 0 and
\* letter_score is 0 for every letter; no result is undefined or non-finite.
C15_DegenerateScores ==
    C15_Case =>
        /\ score.half = 0
        /\ probe.op = "max_score" => probe.result = 0
        /\ probe.op = "letter_score" => FSame(probe.result, FZero)
        /\ probe.op = "word_score" => probe.result.k = "fin"

----------------------------------------------------------------------------
(* C16 *)

\* the number of occurrences of word w in list ws
Occurrences(ws, w) == Cardinality({ k \in 1..Len(ws) : ws[k] = w })

\* list a holds the words of list b, each as often, in some order
IsReordering(a, b) ==
    /\ Len(a) = Len(b)
    /\ \A k \in 1..Len(a) : Occurrences(a, a[k]) = Occurrences(b, a[k])

\* C16: once the candidates are loaded, no step adds a word to them or makes
\* the list longer; the filter step is the only one that changes which words
\* are candidates, and every other step at most reorders the list.
C16_CandidatesOnlyShrink ==
    [][ pc # "start" =>
            /\ Chars(words') \subseteq Chars(words)
            /\ Len(words') <= Len(words)
            /\ Chars(words') # Chars(words) => IsFilterStep
            /\ ~IsFilterStep => IsReordering(words', words)
      ]_vars

\* two filters and the ranking after them have run; words were dropped and
\* some are left
C16_Witness ==
    /\ pc = "pick"
    /\ rounds = 2
    /\ 0 < Len(words)
    /\ Len(words) < Len(all_words)
    /\ \E w \in Chars(all_words) : w \notin Chars(words)

----------------------------------------------------------------------------
(* C17 *)

\* in the response being parsed letter l is green at one position of the pick
\* and grey at another
GreenAndGrey(l) ==
    \E i, j \in 1..Min(Len(res), Len(picked)) :
        /\ picked[i] = l /\ res[i] = "o"
        /\ picked[j] = l /\ res[j] = "x"

\* C17: parsing a response in which a letter of the pick is green at one
\* position and grey at another does not insert that letter into
\* forbidden_everywhere.
C17_GreyOfGreenLetterPositional ==
    [][ IsParseStep =>
            \A l \in Chars(picked) :
                (GreenAndGrey(l) /\ ~InSet(l, forbidden_everywhere))
                    => ~InSet(l, forbidden_everywhere')
      ]_vars

----------------------------------------------------------------------------
(* C18 *)

\* no word of list ws stands before a word with a strictly greater score
NonIncreasing(ws, early) ==
    \A i, j \in 1..Len(ws) :
        i < j =>
            partial_cmp(word_score(score, ws[i], present_everywhere, early),
                        word_score(score, ws[j], present_everywhere, early))
                # "Less"

\* C18: the late list shown is the first K of the candidates in non-increasing
\* order of their late score, the early list the first K of the dictionary in
\* non-increasing order of their early score, both scored by the Scoring built
\* from the candidates of the round.
C18_GuessLists ==
    pc = "pick" =>
        /\ score = Scoring_new(words)
        /\ early_guesses = first_k(all_words, args.guesses)
        /\ NonIncreasing(all_words, TRUE)
        /\ late_guesses = first_k(words, args.guesses)
        /\ NonIncreasing(words, FALSE)

----------------------------------------------------------------------------
(* C19 *)

\* the letter fixed at position i is also forbidden at position i
Conflict(i) ==
    /\ fixed_letters[i] # None
    /\ InSet(fixed_letters[i], forbidden_position[i])

FixedAreFixedAnywhere ==
    \A i \in 1..Len(fixed_letters) :
        fixed_letters[i] # None => InSet(fixed_letters[i], fixed_anywhere)

\* C19 as stated: in every reachable state no position forbids the letter
\* fixed there, and fixed_anywhere holds every fixed letter.
C19_Original ==
    /\ \A i \in 1..Len(fixed_letters) : ~Conflict(i)
    /\ FixedAreFixedAnywhere

\* C19, amended: fixed_anywhere holds every fixed letter in every reachable
\* state; a position comes to forbid the letter fixed there only by a ? or an o
\* given at that position for that letter, never by a grey; and outside the
\* parsing of a response, whenever a position forbids its fixed letter the
\* candidate list is empty.
C19_FixedVersusForbidden ==
    /\ [](FixedAreFixedAnywhere)
    /\ []((pc # "parse" /\ \E i \in 1..Len(fixed_letters) : Conflict(i))
              => words = <<>>)
    /\ [][ \A i \in 1..Len(fixed_letters') :
               (Conflict(i)' /\ ~Conflict(i)) =>
                   /\ IsParseStep
                   /\ pos' = i
                   /\ res[i] \in {"o", "?"}
                   /\ picked[i] = fixed_letters'[i]
         ]_vars

\* a position forbids its fixed letter, the filter has run and no candidate is
\* left, in a session that had candidates
C19_Witness ==
    /\ pc = "pick"
    /\ rounds >= 1
    /\ \E i \in 1..Len(fixed_letters) : Conflict(i)
    /\ words = <<>>
    /\ all_words # <<>>

----------------------------------------------------------------------------
(* C20 *)

\* the feedback the game gives for pick p against secret s: a letter at its
\* place is green; of the other occurrences of a letter in the pick, as many
\* are orange, from the left, as the secret has occurrences of it not matched
\* by a green, and the rest are grey
WordleFeedback(p, s) ==
    [i \in 1..Len(p) |->
        IF p[i] = s[i] THEN "o"
        ELSE LET avail == Cardinality({ j \in 1..Len(s) : s[j] = p[i] /\ p[j] # s[j] })
                 used  == Cardinality({ j \in 1..(i - 1) : p[j] = p[i] /\ p[j] # s[j] })
             IN  IF used < avail THEN "?" ELSE "x"]

\* C20: if the secret is a word of the dictionary and the feedback entered is
\* the game's feedback for the pick against it, the secret is still a candidate
\* after the filter. Stated for the first round, where every dictionary word
\* is a candidate before the feedback.
C20_SecretSurvives ==
    (pc = "rank" /\ rounds = 1) =>
        \A secret \in Chars(all_words) :
            (Len(picked) = Len(secret) /\ res = WordleFeedback(picked, secret))
                => secret \in Chars(words)

====
